---- MODULE Spec2Model ----
(***************************************************************************)
(* A model of seg_gpt5.py: the region consolidator                         *)
(* (merge_tiny_regions_fast with _adjacency_pairs) as operators over label *)
(* grids, and the interactive layer builder (interactive_layer_builder     *)
(* with its on_mouse / trackbar callbacks and its key loop) as a state     *)
(* machine.                                                                *)
(*                                                                         *)
(* A label grid is a function from pixels <<x, y>> to integer ids.  A      *)
(* colour field is a function from pixels to 3-channel colours.            *)
(***************************************************************************)
EXTENDS Integers, FiniteSets, Sequences, TLC

VARIABLES
    \* ---- merge_tiny_regions_fast called on drawn inputs ----
    m_pc,        \* "idle" | "input" | "done"
    m_labels,    \* the labels argument
    m_lab,       \* the lab_image argument
    m_min,       \* the min_pixels argument
    m_pick,      \* the neighbour each small region met first at minimum distance
    m_out,       \* the returned grid
    \* ---- interactive_layer_builder ----
    labels,      \* the working label grid
    labels_slic, \* the base superpixel partition
    rag,         \* the region adjacency graph: it is the graph of labels_slic
                 \* less the edges removed by cuts made in place, and is held
                 \* as the set of the thresholds of those cuts
    selected,    \* the Selection Set
    sel_mask,    \* the pixels where sel_mask holds 255
    boundaries,  \* the pixels where boundaries is True
    state,       \* the state dict: need, reseg, reslic, target_thresh,
                 \* target_segments, target_compact, cut_mode, cut_p1,
                 \* show_preview, smooth (in tenths of a pixel)
    last_xy,     \* the last mouse position
    pc,          \* "off" | "top" (start of a loop iteration) | "wait" (in
                 \* cv2.waitKey, where callbacks run) | "done"
    last,        \* history: the last handler run, what it printed, for a
                 \* split the colours KMeans put in cluster 1, and for a
                 \* save or export whether the file was written (io)
    undo,        \* history: the label toggled and the selection before it, for
                 \* the last two toggles with no other command since (latest
                 \* first)
    idx,         \* the number the next saved or exported selection file gets
    hist         \* history: anchor, the region that held the cut anchor when
                 \* it was recorded; th and grid, the threshold and the result
                 \* of the last re-segmentation of the loop; edits, whether a
                 \* toggle, cut or split came since; rep, whether the last
                 \* loop iteration repeated a re-segmentation after edits;
                 \* dirty, whether the grid or the selection changed since
                 \* the window was last drawn

mvars == <<m_pc, m_labels, m_lab, m_min, m_pick, m_out>>

evars == <<labels, labels_slic, rag, selected, sel_mask, boundaries, state,
           last_xy, pc, last, undo, idx, hist>>

vars == <<m_pc, m_labels, m_lab, m_min, m_pick, m_out,
          labels, labels_slic, rag, selected, sel_mask, boundaries, state,
          last_xy, pc, last, undo, idx, hist>>

\* ------------------------------------------------------------------ bounds

\* Width of the two-row grids merge_tiny_regions_fast is called on.
MW == 2
\* The largest positive min_pixels drawn.
MMaxMin == 3
\* Width and height of the image the layer builder edits.
W == 10
H == 5
\* Cuts and splits are taken while the largest id in the grid is below this.
MaxLabel == 2

\* ----------------------------------------------------------- grid helpers

SetMax(S) == CHOOSE m \in S : \A u \in S : u <= m

SetMin(S) == CHOOSE m \in S : \A u \in S : m <= u

Ids(L) == {L[p] : p \in DOMAIN L}

\* 4-connected neighbour pixels of p inside the pixel set D.
Nbr4(D, p) ==
    {q \in {<<p[1] + 1, p[2]>>, <<p[1] - 1, p[2]>>,
            <<p[1], p[2] + 1>>, <<p[1], p[2] - 1>>} : q \in D}

\* Two pixels carry the same id in grid A exactly when they do in grid B.
SamePartition(A, B) ==
    /\ DOMAIN A = DOMAIN B
    /\ \A p, q \in DOMAIN A : (A[p] = A[q]) <=> (B[p] = B[q])

\* skimage.segmentation.relabel_sequential(labels) with its default
\* offset=1: label 0 is background and stays 0, the other labels are mapped,
\* in increasing order, to 1, 2, ...
RelabelSequential(L) ==
    LET nz == Ids(L) \ {0}
        rank(v) == Cardinality({u \in nz : u <= v})
    IN  [p \in DOMAIN L |-> IF L[p] = 0 THEN 0 ELSE rank(L[p])]

\* _adjacency_pairs: the (lo, hi) pairs of unequal labels that are
\* horizontal or vertical neighbours.
AdjacencyPairs(L) ==
    LET D == DOMAIN L
        horiz == {<<p, <<p[1] + 1, p[2]>>>> : p \in D}
        vert  == {<<p, <<p[1], p[2] + 1>>>> : p \in D}
        pairs == {e \in horiz \cup vert : e[2] \in D /\ L[e[1]] # L[e[2]]}
    IN  {<<IF L[e[1]] < L[e[2]] THEN L[e[1]] ELSE L[e[2]],
           IF L[e[1]] < L[e[2]] THEN L[e[2]] ELSE L[e[1]]>> : e \in pairs}

\* n = int(out.max()) + 1 if out.size else 0
NumIds(out) == IF DOMAIN out = {} THEN 0 ELSE SetMax(Ids(out)) + 1

RECURSIVE SumOver(_, _, _)
SumOver(S, img, ch) ==
    IF S = {} THEN 0
    ELSE LET p == CHOOSE q \in S : TRUE
         IN  img[p][ch] + SumOver(S \ {p}, img, ch)

\* What lines 109-119 compute from out and lab_image: n, area (bincount),
\* sums (per id and channel; means = sums / max(area, 1) is kept as that
\* exact fraction) and neighbors (as sets: the lists' order is that of a
\* Python set's iteration, which the code does not control).
Tables(out, img) ==
    LET n   == NumIds(out)
        adj == AdjacencyPairs(out)
    IN  [n |-> n,
         area |-> [i \in 0 .. n - 1 |->
                      Cardinality({p \in DOMAIN out : out[p] = i})],
         sums |-> [i \in 0 .. n - 1 |->
                      [ch \in 1 .. 3 |->
                          SumOver({p \in DOMAIN out : out[p] = i}, img, ch)]],
         neighbors |-> [i \in 0 .. n - 1 |->
                          {e[2] : e \in {f \in adj : f[1] = i}}
                            \cup {e[1] : e \in {f \in adj : f[2] = i}}]]

\* np.maximum(area, 1)
AreaDiv(T, i) == IF T.area[i] < 1 THEN 1 ELSE T.area[i]

\* |means[s] - means[nb]|^2 = DistNum / (AreaDiv(s) * AreaDiv(nb))^2
DistNum(T, s, nb) ==
    LET t(ch) == T.sums[s][ch] * AreaDiv(T, nb) - T.sums[nb][ch] * AreaDiv(T, s)
    IN  t(1) * t(1) + t(2) * t(2) + t(3) * t(3)

\* d(s, a) < d(s, b), d = np.linalg.norm(means[s] - means[.])
Closer(T, s, a, b) ==
    DistNum(T, s, a) * AreaDiv(T, b) * AreaDiv(T, b)
        < DistNum(T, s, b) * AreaDiv(T, a) * AreaDiv(T, a)

\* ------------------------------------------------- merge_tiny_regions_fast

\* area < min_pixels
IsSmallFlipped(a, mp) == a > mp

IsSmallOrEqual(a, mp) == a <= mp

IsSmall(a, mp) == a < mp

\* small = np.where(area < min_pixels)[0]
Small(T, mp) == {i \in 0 .. T.n - 1 : IsSmall(T.area[i], mp)}

\* The neighbours of s that the scan over nbrs can leave in best: d < best_d
\* is strict, so best is the first neighbour of minimum distance in the
\* list's order, and any neighbour of minimum distance can be that one.
IsBestFarthest(T, s, nb) ==
    /\ nb \in T.neighbors[s]
    /\ \A b \in T.neighbors[s] : ~Closer(T, s, nb, b)

IsBest(T, s, nb) ==
    /\ nb \in T.neighbors[s]
    /\ \A b \in T.neighbors[s] : ~Closer(T, s, b, nb)

\* The small ids the loop does not skip (nbrs not empty).
Merging(T, mp) == {s \in Small(T, mp) : T.neighbors[s] # {}}

RECURSIVE PicksOver(_, _)
PicksOver(T, S) ==
    IF S = {} THEN {<< >>}
    ELSE LET s == SetMin(S)
         IN  {(s :> b) @@ f : b \in {nb \in T.neighbors[s] : IsBest(T, s, nb)},
                              f \in PicksOver(T, S \ {s})}

\* One function s |-> best per way the neighbour lists can be ordered.
PickFns(out, img, mp) ==
    LET T == Tables(out, img) IN PicksOver(T, Merging(T, mp))

\* find(x): path halving; fuel bounds the number of iterations, ok tells
\* whether the loop ended within it.
RECURSIVE find(_, _, _)
find(parent, x, fuel) ==
    IF parent[x] = x THEN [parent |-> parent, root |-> x, ok |-> TRUE]
    ELSE IF fuel = 0 THEN [parent |-> parent, root |-> x, ok |-> FALSE]
    ELSE LET p2 == [parent EXCEPT ![x] = parent[parent[x]]]
         IN  find(p2, p2[x], fuel - 1)

\* parent[s] = find(best)
UnionStepNoFind(parent, s, best) ==
    [parent |-> [parent EXCEPT ![s] = best], ok |-> TRUE]

UnionStep(parent, s, best) ==
    LET f == find(parent, best, Cardinality(DOMAIN parent))
    IN  [parent |-> [f.parent EXCEPT ![s] = f.root], ok |-> f.ok]

\* for s in small: ... (small is in increasing order)
RECURSIVE UnionLoop(_, _, _)
UnionLoop(st, todo, pick) ==
    IF todo = {} \/ ~st.ok THEN st
    ELSE LET s == SetMin(todo)
         IN  UnionLoop(IF s \in DOMAIN pick
                         THEN UnionStep(st.parent, s, pick[s])
                         ELSE st,
                       todo \ {s}, pick)

\* parent after the union loop, from parent = np.arange(n)
Parent(n, small, pick) ==
    UnionLoop([parent |-> [i \in 0 .. n - 1 |-> i], ok |-> TRUE], small, pick)

\* for i in range(n): ... map_ids[i] = j (the parent array is compressed on
\* the way; map_ids[i] is the root of i)
RECURSIVE ResolveLoop(_, _, _)
ResolveLoop(st, i, n) ==
    IF i >= n \/ ~st.ok THEN st
    ELSE LET f == find(st.parent, i, n)
         IN  ResolveLoop([parent |-> f.parent,
                          map_ids |-> [st.map_ids EXCEPT ![i] = f.root],
                          ok |-> f.ok], i + 1, n)

MapIdsOneHop(parent) ==
    [parent |-> parent, map_ids |-> parent, ok |-> TRUE]

MapIds(parent) ==
    ResolveLoop([parent |-> parent, map_ids |-> [i \in DOMAIN parent |-> i],
                 ok |-> TRUE], 0, Cardinality(DOMAIN parent))

\* The body of merge_tiny_regions_fast after the first relabel, with the
\* neighbour orders resolved by pick.  ok is FALSE when a find loop or the
\* root-resolution loop does not end.
MergeRun(out, mp, pick) ==
    LET n     == NumIds(out)
        small == {i \in 0 .. n - 1 :
                    IsSmall(Cardinality({p \in DOMAIN out : out[p] = i}), mp)}
    IN
    IF n <= 1 THEN [out |-> out, ok |-> TRUE]
    ELSE IF small = {} THEN [out |-> out, ok |-> TRUE]
    ELSE LET u == Parent(n, small, pick)
             r == MapIds(u.parent)
         IN  IF ~u.ok \/ ~r.ok THEN [out |-> out, ok |-> FALSE]
             ELSE [out |-> RelabelSequential(
                               [p \in DOMAIN out |-> r.map_ids[out[p]]]),
                   ok |-> TRUE]

\* merge_tiny_regions_fast(labels, lab_image, min_pixels) for one choice of
\* the neighbour orders
merge_tiny_regions_fast(lbls, mp, pick) ==
    MergeRun(RelabelSequential(lbls), mp, pick)

\* ------------------------------------------- the image and the pipeline

None == << >>

Pixels == (0 .. W - 1) \X (0 .. H - 1)

\* Row-major position of a pixel (numpy's scan order).
Raster(p) == p[2] * W + p[1]

RasterFirst(S) == CHOOSE p \in S : \A q \in S : Raster(p) <= Raster(q)

Nbr8(D, p) ==
    {q \in {<<p[1] + dx, p[2] + dy>> : dx \in {-1, 0, 1}, dy \in {-1, 0, 1}} :
        q # p /\ q \in D}

\* lab (line 67): the left half of the image has one colour, the right half
\* another at distance 25.
lab ==
    [p \in Pixels |->
        IF 2 * p[1] >= W THEN <<15, 20, 0>>
        ELSE <<0, 0, 0>>]

\* segmentation.slic(rgb_blur, n_segments, compactness, start_label=0)
\* (external): the four quadrants of the image are superpixels, numbered in
\* scan order; with the larger segment count a two-pixel patch in the top
\* right corner is a superpixel of its own.
slic(n_segments, compactness) ==
    [p \in Pixels |->
        IF n_segments >= 1000 /\ p[1] >= W - 1 /\ p[2] <= 1 THEN 4
        ELSE (IF 2 * p[1] >= W THEN 1 ELSE 0) + (IF 2 * p[2] >= H THEN 2 ELSE 0)]

RECURSIVE FloodFrom(_, _)
\* The pixels of S 4-connected through S to the set F (F within S).
FloodFrom(F, S) ==
    LET G == F \cup {q \in S \ F :
                       \/ <<q[1] + 1, q[2]>> \in F
                       \/ <<q[1] - 1, q[2]>> \in F
                       \/ <<q[1], q[2] + 1>> \in F
                       \/ <<q[1], q[2] - 1>> \in F}
    IN  IF G = F THEN F ELSE FloodFrom(G, S)

RECURSIVE GraphReach(_, _)
\* The nodes reachable from the set F along the edges E (sets {a, b}).
GraphReach(F, E) ==
    LET G == F \cup UNION {e \in E : e \cap F # {}}
    IN  IF G = F THEN F ELSE GraphReach(G, E)

\* graph.rag_mean_color(lab, labels_slic, mode='distance') followed by
\* graph.cut_threshold(labels_slic, rag, thresh) (external): superpixels that
\* touch (8-connectivity) are joined by an edge weighted with the distance
\* of their mean colours; edges of weight >= thresh are removed and the
\* connected components, numbered from 0, are the new labels.
cut_threshold(sl, img, thresh) ==
    LET T     == Tables(sl, img)
        nodes == Ids(sl)
        touch == UNION {{{sl[p], sl[q]} : q \in Nbr8(Pixels, p)} : p \in Pixels}
        kept  == {e \in touch :
                    /\ Cardinality(e) = 2
                    /\ \E a, b \in e :
                          /\ a < b
                          /\ DistNum(T, a, b) <
                               thresh * thresh * AreaDiv(T, a) * AreaDiv(T, a)
                                 * AreaDiv(T, b) * AreaDiv(T, b)}
        comp(a)  == GraphReach({a}, kept)
        index(a) == Cardinality({SetMin(comp(b)) : b \in nodes}
                                  \cap (0 .. SetMin(comp(a)) - 1))
    IN  [p \in Pixels |-> index(sl[p])]

\* segmentation.expand_labels(labels, distance=1) (external): label 0 is
\* background; a 0 pixel with a labelled pixel at distance <= 1 takes the
\* label of the nearest one (of the first in scan order when several are
\* as near); every labelled pixel keeps its label.
expand_labels(L) ==
    [p \in DOMAIN L |->
        IF L[p] # 0 THEN L[p]
        ELSE LET near == {q \in Nbr4(DOMAIN L, p) : L[q] # 0}
             IN  IF near = {} THEN 0 ELSE L[RasterFirst(near)]]

\* segmentation.find_boundaries(labels, mode='outer') (external): a pixel
\* with a differently labelled 4-neighbour is a boundary pixel if it is
\* background (0) or has two different non-zero labels in its 3x3
\* neighbourhood.
find_boundaries(L) ==
    {p \in DOMAIN L :
        /\ \E q \in Nbr4(DOMAIN L, p) : L[q] # L[p]
        /\ \/ L[p] = 0
           \/ \E q \in Nbr8(DOMAIN L, p) : L[q] # 0 /\ L[q] # L[p]}

\* min_area_fraction (line 19), in 1/10000.
MinAreaFracE4 == 15

\* int(min_area_fraction * labels.size)
MinPixels(L) == (MinAreaFracE4 * Cardinality(DOMAIN L)) \div 10000

\* The neighbour lists' order is fixed within a run (it is the iteration
\* order of a set built the same way from the same grid): of the neighbours
\* at minimum distance the run's order puts one first.
RunPick(out, img, mp) ==
    LET T == Tables(out, img)
    IN  [s \in Merging(T, mp) |->
            SetMin({nb \in T.neighbors[s] : IsBest(T, s, nb)})]

\* Lines 79, 159-163 and 399-404: threshold cut of the base partition, merge
\* of the tiny regions, expand_labels.
Resegment(sl, thresh) ==
    LET merged == cut_threshold(sl, lab, thresh)
        mp     == MinPixels(merged)
        clean  == merge_tiny_regions_fast(
                      merged, mp, RunPick(RelabelSequential(merged), lab, mp)).out
    IN  expand_labels(clean)

\* ------------------------------------------------ interactive_layer_builder

\* Program constants.
InitThresh == 20
InitSegments == 1200
InitCompact == 12
SplitMinSize == 50
InitSmooth == 15

\* The inputs drawn: pixels clicked or hovered, trackbar positions.
ClickPoints == {<<0, 0>>, <<W - 1, H - 1>>}
ThreshPositions == {60}
SegmentPositions == {0}
CompactPositions == {12}

Clamp(lo, hi, v) == IF v < lo THEN lo ELSE IF v > hi THEN hi ELSE v

NoEvent == [ev |-> "none", msg |-> "", one |-> {}, io |-> "none"]

\* selected.clear(); sel_mask[:] = 0
ClearSelectionSetOnly(sel, mask) == [selected |-> {}, sel_mask |-> mask]

ClearSelectionMaskOnly(sel, mask) == [selected |-> sel, sel_mask |-> {}]

ClearSelection(sel, mask) == [selected |-> {}, sel_mask |-> {}]

\* Lines 301-309: toggle the region lab.
ToggleSelectNoUnmask(L, sel, mask, l) ==
    IF l \in sel
    THEN [selected |-> sel \ {l}, sel_mask |-> mask, msg |-> "Deselected region"]
    ELSE [selected |-> sel \cup {l},
          sel_mask |-> mask \cup {q \in DOMAIN L : L[q] = l},
          msg |-> "Selected region"]

ToggleSelect(L, sel, mask, l) ==
    IF l \in sel
    THEN [selected |-> sel \ {l},
          sel_mask |-> mask \ {q \in DOMAIN L : L[q] = l},
          msg |-> "Deselected region"]
    ELSE [selected |-> sel \cup {l},
          sel_mask |-> mask \cup {q \in DOMAIN L : L[q] = l},
          msg |-> "Selected region"]

\* cv2.line(cut, (x1, y1), (x2, y2), color=1, thickness=3) (external): the
\* pixels of a band of width 3 centred on the segment, both end points
\* included; here the pixels at distance <= sqrt(2) from the segment.
LinePixels(a, b) ==
    LET dx == b[1] - a[1]
        dy == b[2] - a[2]
        len2 == dx * dx + dy * dy
        d2a(q) == (q[1] - a[1]) * (q[1] - a[1]) + (q[2] - a[2]) * (q[2] - a[2])
        d2b(q) == (q[1] - b[1]) * (q[1] - b[1]) + (q[2] - b[2]) * (q[2] - b[2])
        t(q) == (q[1] - a[1]) * dx + (q[2] - a[2]) * dy
    IN  {q \in Pixels :
            IF t(q) <= 0 THEN d2a(q) <= 2
            ELSE IF t(q) >= len2 THEN d2b(q) <= 2
            ELSE d2a(q) * len2 - t(q) * t(q) <= 2 * len2}

\* measure.label(region_after, connectivity=1) (external): the 4-connected
\* components, numbered 1, 2, ... in the scan order of their first pixels;
\* here the sequence of the components.
RECURSIVE Components(_)
Components(S) ==
    IF S = {} THEN << >>
    ELSE LET c == FloodFrom({RasterFirst(S)}, S)
         IN  <<c>> \o Components(S \ c)

\* comps[y, x]
CompAt(cs, q) ==
    IF \E i \in 1 .. Len(cs) : q \in cs[i]
    THEN CHOOSE i \in 1 .. Len(cs) : q \in cs[i]
    ELSE 0

\* region_mask[y2, x2] == 0 is the cancel test
SameRegionAlways(L, p1, p2) == TRUE

SameRegion(L, p1, p2) == L[p2] = L[p1]

\* if num >= 2
CutSplitsFromOne(num) == num >= 1

CutSplits(num) == num >= 2

\* comp_id = int(comps[y2, x2]); if comp_id == 0: comp_id = 1
CompIdNoFallback(c) == c

CompId(c) == IF c = 0 THEN 1 ELSE c

\* new_id = int(labels.max()) + 1
NewIdNoIncrement(L) == SetMax(Ids(L))

NewId(L) == SetMax(Ids(L)) + 1

\* state["need"] = True after a change of the grid or of the selection
\* (lines 291, 310, 421, 465)
MarkRedrawNot(st) == st

MarkRedraw(st) == [st EXCEPT !.need = TRUE]

\* exit cut mode: state["cut_p1"] = None; state["cut_mode"] = False (lines
\* 297-299)
ExitCutKeepAnchor(st) == [st EXCEPT !.cut_mode = FALSE]

ExitCut(st) == [st EXCEPT !.cut_p1 = None, !.cut_mode = FALSE]

\* Lines 267-296: the outcome of the second cut click at p2 with anchor p1.
CutOutcome(L, p1, p2) ==
    LET lab_target   == L[p1]
        region_mask  == {q \in DOMAIN L : L[q] = lab_target}
        region_after == region_mask \ LinePixels(p1, p2)
        comps        == Components(region_after)
        num          == Len(comps)
        comp_id      == CompId(CompAt(comps, p2))
        picked       == IF comp_id = 0 THEN DOMAIN L \ region_after
                        ELSE IF comp_id \in 1 .. num THEN comps[comp_id]
                        ELSE {}
        new_id       == NewId(L)
    IN  IF ~SameRegion(L, p1, p2)
        THEN [msg |-> "Second point not in the same region; cancelling cut.",
              labels |-> L]
        ELSE IF CutSplits(num)
        THEN [msg |-> "Cut applied.",
              labels |-> [q \in DOMAIN L |-> IF q \in picked THEN new_id ELSE L[q]]]
        ELSE [msg |-> "Cut did not split the region", labels |-> L]

\* boundaries = segmentation.find_boundaries(labels, mode='outer') after a
\* change of the grid (lines 290, 407, 464)
RefreshBoundariesStale(old, L) == old

RefreshBoundaries(old, L) == find_boundaries(L)

\* Whether the loop iteration re-segments: the reslic block ends with
\* state["reseg"] = True (line 393), the next block tests reseg (line 396).
NeedsResegFlagOnly(reslic, reseg) == reseg

NeedsReseg(reslic, reseg) == reslic \/ reseg

\* graph.cut_threshold(labels_slic, rag, thresh=th, in_place=False) (line
\* 399): the edges of weight >= th are removed from a copy, rag is left as
\* it was (in_place=True would remove them from rag itself).
RagAfterCutInPlace(g, th) == g \cup {th}

RagAfterCut(g, th) == g

\* The threshold whose cut of the full graph of labels_slic equals the cut
\* at th of the graph g.
EffectiveThresh(g, th) == SetMin(g \cup {th})

\* if state["cut_mode"]: a released button is a cut point (line 261)
RoutedToCutNever(cut_mode) == FALSE

RoutedToCut(cut_mode) == cut_mode

\* The values the three trackbars can hold, and the base partitions they
\* lead to.
ThreshTargets == {InitThresh} \cup {Clamp(1, 60, pos) : pos \in ThreshPositions}

SegmentTargets ==
    {InitSegments} \cup {Clamp(300, 3000, pos) : pos \in SegmentPositions}

CompactTargets == {InitCompact} \cup {Clamp(1, 40, pos) : pos \in CompactPositions}

SlicGrids == {slic(n, c) : n \in SegmentTargets, c \in CompactTargets}

\* Resegment, tabulated over the base partitions and thresholds of a session.
Resegmented == [sl \in SlicGrids, t \in ThreshTargets |-> Resegment(sl, t)]

Init ==
    /\ m_pc = "off"
    /\ m_labels = << >>
    /\ m_lab = << >>
    /\ m_min = 0
    /\ m_pick = << >>
    /\ m_out = << >>
    /\ labels_slic = slic(InitSegments, InitCompact)
    /\ rag = {}
    /\ labels = Resegmented[slic(InitSegments, InitCompact), InitThresh]
    /\ selected = {}
    /\ sel_mask = {}
    /\ boundaries =
          find_boundaries(Resegmented[slic(InitSegments, InitCompact), InitThresh])
    /\ state = [need |-> TRUE, reseg |-> FALSE, reslic |-> FALSE,
                target_thresh |-> InitThresh,
                target_segments |-> InitSegments,
                target_compact |-> InitCompact,
                cut_mode |-> FALSE, cut_p1 |-> None,
                show_preview |-> FALSE, smooth |-> InitSmooth]
    /\ last_xy = <<0, 0>>
    /\ pc = "top"
    /\ last = NoEvent
    /\ undo = << >>
    /\ idx = 1
    /\ hist = [anchor |-> {}, th |-> 0,
               grid |-> Resegmented[slic(InitSegments, InitCompact), InitThresh],
               edits |-> FALSE, rep |-> FALSE, dirty |-> FALSE]

\* Lines 384-416: the start of a loop iteration, up to cv2.waitKey.
LoopTop ==
    /\ pc = "top"
    /\ LET sl  == IF state.reslic
                  THEN slic(state.target_segments, state.target_compact)
                  ELSE labels_slic
           g   == IF state.reslic THEN {} ELSE rag
           rs  == NeedsReseg(state.reslic, state.reseg)
           new == Resegmented[sl, EffectiveThresh(g, state.target_thresh)]
           cl  == ClearSelection(selected, sel_mask)
       IN  /\ labels_slic' = sl
           /\ rag' = IF rs THEN RagAfterCut(g, state.target_thresh) ELSE g
           /\ labels' = IF rs THEN new ELSE labels
           /\ selected' = IF rs THEN cl.selected ELSE selected
           /\ sel_mask' = IF rs THEN cl.sel_mask ELSE sel_mask
           /\ boundaries' = IF rs THEN RefreshBoundaries(boundaries, new) ELSE boundaries
           /\ last' = [ev |-> "loop",
                       msg |-> IF state.reslic THEN "reslic"
                               ELSE IF state.reseg THEN "reseg" ELSE "",
                       one |-> {}, io |-> "none"]
           /\ undo' = IF rs THEN << >> ELSE undo
           /\ hist' = IF rs
                      THEN [hist EXCEPT
                              !.th = state.target_thresh,
                              !.grid = new,
                              !.edits = FALSE,
                              !.rep = /\ hist.th = state.target_thresh
                                      /\ sl = labels_slic
                                      /\ hist.edits,
                              !.dirty = FALSE]
                      ELSE [hist EXCEPT !.rep = FALSE,
                                        !.dirty = IF state.need THEN FALSE ELSE @]
    /\ state' = [state EXCEPT !.reslic = FALSE, !.reseg = FALSE, !.need = FALSE]
    /\ pc' = "wait"
    /\ UNCHANGED <<last_xy, idx>>
    /\ UNCHANGED mvars

\* on_mouse for an event that is not a handled button release (a move, a
\* button press, a double click, a release within 250 ms of the last one):
\* only last_xy is set.
OnMouseOther(p) ==
    /\ pc = "wait"
    /\ last_xy' = p
    /\ last' = NoEvent
    /\ UNCHANGED undo
    /\ UNCHANGED <<labels, labels_slic, selected, sel_mask, boundaries, state, pc>>
    /\ UNCHANGED hist
    /\ UNCHANGED <<rag, idx>>
    /\ UNCHANGED mvars

\* on_mouse, EVENT_LBUTTONUP in cut mode with no anchor yet (lines 263-265).
OnMouseCutFirst(p) ==
    /\ pc = "wait"
    /\ RoutedToCut(state.cut_mode)
    /\ state.cut_p1 = None
    /\ last_xy' = p
    /\ state' = [state EXCEPT !.cut_p1 = p]
    /\ last' = [ev |-> "click", msg |-> "Cut start set.", one |-> {}, io |-> "none"]
    /\ undo' = << >>
    /\ hist' = [hist EXCEPT !.anchor = {q \in Pixels : labels[q] = labels[p]}]
    /\ UNCHANGED <<labels, labels_slic, selected, sel_mask, boundaries, pc>>
    /\ UNCHANGED <<rag, idx>>
    /\ UNCHANGED mvars

\* on_mouse, EVENT_LBUTTONUP in cut mode with the anchor set (lines 266-299).
OnMouseCutSecond(p) ==
    /\ pc = "wait"
    /\ RoutedToCut(state.cut_mode)
    /\ state.cut_p1 # None
    /\ LET r  == CutOutcome(labels, state.cut_p1, p)
           ok == r.msg = "Cut applied."
           cl == ClearSelection(selected, sel_mask)
       IN  /\ ok => SetMax(Ids(labels)) < MaxLabel
           /\ labels' = r.labels
           /\ selected' = IF ok THEN cl.selected ELSE selected
           /\ sel_mask' = IF ok THEN cl.sel_mask ELSE sel_mask
           /\ boundaries' = IF ok THEN RefreshBoundaries(boundaries, r.labels)
                               ELSE boundaries
           /\ state' = ExitCut(IF ok THEN MarkRedraw(state) ELSE state)
           /\ last' = [ev |-> "click", msg |-> r.msg, one |-> {}, io |-> "none"]
           /\ hist' = [hist EXCEPT !.anchor = {},
                                   !.edits = IF ok THEN TRUE ELSE @,
                                   !.dirty = IF ok THEN TRUE ELSE @]
    /\ last_xy' = p
    /\ undo' = << >>
    /\ UNCHANGED <<labels_slic, pc>>
    /\ UNCHANGED <<rag, idx>>
    /\ UNCHANGED mvars

\* on_mouse, EVENT_LBUTTONUP outside cut mode (lines 300-310).
OnMouseToggle(p) ==
    /\ pc = "wait"
    /\ ~RoutedToCut(state.cut_mode)
    /\ LET r == ToggleSelect(labels, selected, sel_mask, labels[p])
       IN  /\ selected' = r.selected
           /\ sel_mask' = r.sel_mask
           /\ last' = [ev |-> "click", msg |-> r.msg, one |-> {}, io |-> "none"]
    /\ undo' = <<[lab |-> labels[p], selected |-> selected, sel_mask |-> sel_mask]>>
                    \o (IF undo = << >> THEN << >> ELSE <<undo[1]>>)
    /\ last_xy' = p
    /\ state' = MarkRedraw(state)
    /\ UNCHANGED <<labels, labels_slic, boundaries, pc>>
    /\ hist' = [hist EXCEPT !.edits = TRUE, !.dirty = TRUE]
    /\ UNCHANGED <<rag, idx>>
    /\ UNCHANGED mvars

\* on_trackbar (lines 331-336)
OnTrackbar(pos) ==
    /\ pc = "wait"
    /\ state' = [state EXCEPT !.target_thresh = Clamp(1, 60, pos),
                              !.reseg = TRUE, !.need = TRUE]
    /\ last' = [ev |-> "trackbar", msg |-> "", one |-> {}, io |-> "none"]
    /\ undo' = << >>
    /\ UNCHANGED <<labels, labels_slic, selected, sel_mask, boundaries, last_xy, pc>>
    /\ UNCHANGED hist
    /\ UNCHANGED <<rag, idx>>
    /\ UNCHANGED mvars

\* on_trackbar_slic (lines 341-345)
OnTrackbarSlic(pos) ==
    /\ pc = "wait"
    /\ state' = [state EXCEPT !.target_segments = Clamp(300, 3000, pos),
                              !.reslic = TRUE, !.need = TRUE]
    /\ last' = [ev |-> "trackbar", msg |-> "", one |-> {}, io |-> "none"]
    /\ undo' = << >>
    /\ UNCHANGED <<labels, labels_slic, selected, sel_mask, boundaries, last_xy, pc>>
    /\ UNCHANGED hist
    /\ UNCHANGED <<rag, idx>>
    /\ UNCHANGED mvars

\* on_trackbar_comp (lines 350-354)
OnTrackbarComp(pos) ==
    /\ pc = "wait"
    /\ state' = [state EXCEPT !.target_compact = Clamp(1, 40, pos),
                              !.reslic = TRUE, !.need = TRUE]
    /\ last' = [ev |-> "trackbar", msg |-> "", one |-> {}, io |-> "none"]
    /\ undo' = << >>
    /\ UNCHANGED <<labels, labels_slic, selected, sel_mask, boundaries, last_xy, pc>>
    /\ UNCHANGED hist
    /\ UNCHANGED <<rag, idx>>
    /\ UNCHANGED mvars

\* cv2.waitKey(30) returns no key, or a key no branch handles: next iteration.
KeyNone ==
    /\ pc = "wait"
    /\ pc' = "top"
    /\ last' = [ev |-> "key_none", msg |-> "", one |-> {}, io |-> "none"]
    /\ UNCHANGED undo
    /\ UNCHANGED <<labels, labels_slic, selected, sel_mask, boundaries, state, last_xy>>
    /\ UNCHANGED hist
    /\ UNCHANGED <<rag, idx>>
    /\ UNCHANGED mvars

\* k == 27: break (lines 418-419, 557-558)
KeyEsc ==
    /\ pc = "wait"
    /\ pc' = "done"
    /\ last' = [ev |-> "key_esc", msg |-> "", one |-> {}, io |-> "none"]
    /\ UNCHANGED undo
    /\ UNCHANGED <<labels, labels_slic, selected, sel_mask, boundaries, state, last_xy>>
    /\ UNCHANGED hist
    /\ UNCHANGED <<rag, idx>>
    /\ UNCHANGED mvars

\* k == ord('c') (lines 420-421)
KeyClear ==
    /\ pc = "wait"
    /\ LET cl == ClearSelection(selected, sel_mask)
       IN  /\ selected' = cl.selected
           /\ sel_mask' = cl.sel_mask
    /\ state' = MarkRedraw(state)
    /\ pc' = "top"
    /\ last' = [ev |-> "key_c", msg |-> "", one |-> {}, io |-> "none"]
    /\ undo' = << >>
    /\ UNCHANGED <<labels, labels_slic, boundaries, last_xy>>
    /\ hist' = [hist EXCEPT !.dirty = @ \/ selected # {} \/ sel_mask # {}]
    /\ UNCHANGED <<rag, idx>>
    /\ UNCHANGED mvars

\* k == ord('b') (lines 466-470)
KeyCut ==
    /\ pc = "wait"
    /\ state' = [state EXCEPT !.cut_mode = TRUE, !.cut_p1 = None]
    /\ pc' = "top"
    /\ last' = [ev |-> "key_b", msg |-> "Cut mode", one |-> {}, io |-> "none"]
    /\ undo' = << >>
    /\ UNCHANGED <<labels, labels_slic, selected, sel_mask, boundaries, last_xy>>
    /\ hist' = [hist EXCEPT !.anchor = {}]
    /\ UNCHANGED <<rag, idx>>
    /\ UNCHANGED mvars

\* region_size < 50
TooSmallToSplitOff(size) == size < 0

TooSmallToSplit(size) == size < SplitMinSize

\* KMeans(n_clusters=2, n_init=5, random_state=0).fit_predict(pts)
\* (external): ok is FALSE for an exception; otherwise one is the set of the
\* region's colours put in cluster 1.  Equal points get equal clusters; with
\* two or more distinct colours both clusters are non-empty, with a single
\* colour every point is in cluster 0.
KMeansOutcomes(region) ==
    LET colours == {lab[q] : q \in region}
    IN  {[ok |-> TRUE, one |-> c] :
            c \in {d \in SUBSET colours :
                      IF Cardinality(colours) >= 2
                      THEN d # {} /\ d # colours
                      ELSE d = {}}}
          \cup {[ok |-> FALSE, one |-> {}, io |-> "none"]}

\* k == ord('x') with the region under the cursor too small (lines 439-446)
KeySplitTooSmall ==
    /\ pc = "wait"
    /\ TooSmallToSplit(Cardinality({q \in Pixels : labels[q] = labels[last_xy]}))
    /\ pc' = "top"
    /\ last' = [ev |-> "key_x", msg |-> "Region too small to split.", one |-> {}, io |-> "none"]
    /\ undo' = << >>
    /\ UNCHANGED <<labels, labels_slic, selected, sel_mask, boundaries, state, last_xy>>
    /\ UNCHANGED hist
    /\ UNCHANGED <<rag, idx>>
    /\ UNCHANGED mvars

\* region_indices[lab_ids == 1]: the pixels of the region put in cluster 1
SplitClusterZero(region, one) == {q \in region : lab[q] \notin one}

SplitCluster(region, one) == {q \in region : lab[q] \in one}

\* k == ord('x') on a region of at least 50 pixels (lines 447-465)
KeySplit ==
    /\ pc = "wait"
    /\ SetMax(Ids(labels)) < MaxLabel
    /\ LET region_mask == {q \in Pixels : labels[q] = labels[last_xy]}
       IN  /\ ~TooSmallToSplit(Cardinality(region_mask))
           /\ \E km \in KMeansOutcomes(region_mask) :
                IF ~km.ok
                THEN /\ last' = [ev |-> "key_x", msg |-> "KMeans split failed", one |-> {}, io |-> "none"]
                     /\ UNCHANGED <<labels, selected, sel_mask, boundaries, state, hist>>
                ELSE LET new_id == NewId(labels)
                         new == [q \in Pixels |->
                                    IF q \in SplitCluster(region_mask, km.one)
                                    THEN new_id ELSE labels[q]]
                         cl  == ClearSelection(selected, sel_mask)
                     IN  /\ labels' = new
                         /\ selected' = cl.selected
                         /\ sel_mask' = cl.sel_mask
                         /\ boundaries' = RefreshBoundaries(boundaries, new)
                         /\ hist' = [hist EXCEPT
                                       !.edits = TRUE,
                                       !.dirty = @ \/ new # labels \/ selected # {}]
                         /\ state' = MarkRedraw(state)
                         /\ last' = [ev |-> "key_x", msg |-> "", one |-> km.one, io |-> "none"]
    /\ pc' = "top"
    /\ undo' = << >>
    /\ UNCHANGED <<labels_slic, last_xy>>
    /\ UNCHANGED <<rag, idx>>
    /\ UNCHANGED mvars

Next ==
    \/ LoopTop
    \/ \E p \in ClickPoints : OnMouseOther(p)
    \/ \E p \in ClickPoints : OnMouseCutFirst(p)
    \/ \E p \in ClickPoints : OnMouseCutSecond(p)
    \/ \E p \in ClickPoints : OnMouseToggle(p)
    \/ \E pos \in ThreshPositions : OnTrackbar(pos)
    \/ \E pos \in SegmentPositions : OnTrackbarSlic(pos)
    \/ \E pos \in CompactPositions : OnTrackbarComp(pos)
    \/ KeyNone
    \/ KeyEsc
    \/ KeyClear
    \/ KeyCut
    \/ KeySplitTooSmall
    \/ KeySplit

Spec == Init /\ [][Next]_vars

\* --------------------------------------- saving, exporting and the preview

\* The cap on idx in a model run.
MaxIdx == 2

\* The positions drawn for the smoothing trackbar.
SmoothPositions == {0}

\* idx += 1 after dwg.save() succeeded; the except branch leaves idx alone
\* (lines 523-528)
IdxAfterExportAlways(i, saved) == i + 1

IdxAfterExport(i, saved) == IF saved THEN i + 1 ELSE i

\* on_trackbar_smooth (lines 359-362): the tolerance, pos / 10 pixels, is
\* held in tenths.
OnTrackbarSmooth(pos) ==
    /\ pc = "wait"
    /\ state' = [state EXCEPT !.smooth = IF pos < 0 THEN 0 ELSE pos,
                              !.need = TRUE]
    /\ last' = [ev |-> "trackbar", msg |-> "", one |-> {}, io |-> "none"]
    /\ undo' = << >>
    /\ UNCHANGED <<labels, labels_slic, selected, sel_mask, boundaries, last_xy, pc>>
    /\ UNCHANGED hist
    /\ UNCHANGED <<rag, idx>>
    /\ UNCHANGED mvars

\* k == ord('v') (lines 471-479)
KeyPreview ==
    /\ pc = "wait"
    /\ state' = [state EXCEPT !.show_preview = ~@, !.need = TRUE]
    /\ pc' = "top"
    /\ last' = [ev |-> "key_v", msg |-> "", one |-> {}, io |-> "none"]
    /\ undo' = << >>
    /\ UNCHANGED <<labels, labels_slic, selected, sel_mask, boundaries, last_xy>>
    /\ UNCHANGED hist
    /\ UNCHANGED <<rag, idx>>
    /\ UNCHANGED mvars

\* k == ord('s') (lines 422-433); written is what cv2.imwrite returns (its
\* result is not looked at).
KeySave(written) ==
    /\ pc = "wait"
    /\ IF sel_mask # {}
       THEN /\ idx < MaxIdx
            /\ idx' = idx + 1
            /\ last' = [ev |-> "key_s", msg |-> "Saved", one |-> {},
                        io |-> IF written THEN "ok" ELSE "fail"]
       ELSE /\ idx' = idx
            /\ last' = [ev |-> "key_s", msg |-> "Nothing selected to save.",
                        one |-> {}, io |-> "none"]
    /\ pc' = "top"
    /\ undo' = << >>
    /\ UNCHANGED <<labels, labels_slic, selected, sel_mask, boundaries, state,
                   last_xy>>
    /\ UNCHANGED hist
    /\ UNCHANGED rag
    /\ UNCHANGED mvars

\* k == ord('e') (lines 480-528); saved tells whether dwg.save() returned
\* rather than raised.
KeyExport(saved) ==
    /\ pc = "wait"
    /\ IF sel_mask = {}
       THEN /\ idx' = idx
            /\ last' = [ev |-> "key_e", msg |-> "Nothing selected to export.",
                        one |-> {}, io |-> "none"]
       ELSE /\ saved => idx < MaxIdx
            /\ idx' = IdxAfterExport(idx, saved)
            /\ last' = [ev |-> "key_e",
                        msg |-> IF saved THEN "Exported" ELSE "Failed to save SVG",
                        one |-> {},
                        io |-> IF saved THEN "ok" ELSE "fail"]
    /\ pc' = "top"
    /\ undo' = << >>
    /\ UNCHANGED <<labels, labels_slic, selected, sel_mask, boundaries, state,
                   last_xy>>
    /\ UNCHANGED hist
    /\ UNCHANGED rag
    /\ UNCHANGED mvars

\* k == ord('o') (lines 529-555)
KeyExportAll(saved) ==
    /\ pc = "wait"
    /\ last' = [ev |-> "key_o",
                msg |-> IF saved THEN "Exported all" ELSE "Failed to save SVG",
                one |-> {},
                io |-> IF saved THEN "ok" ELSE "fail"]
    /\ pc' = "top"
    /\ undo' = << >>
    /\ UNCHANGED <<labels, labels_slic, selected, sel_mask, boundaries, state,
                   last_xy>>
    /\ UNCHANGED hist
    /\ UNCHANGED <<rag, idx>>
    /\ UNCHANGED mvars

\* A session of selecting, saving and exporting: the loop, the toggle, the
\* entry into cut mode and its anchor, the threshold trackbar, clear and
\* ESC, and the save, export, preview and smoothing handlers.
IONext ==
    \/ LoopTop
    \/ \E p \in ClickPoints : OnMouseCutFirst(p)
    \/ \E p \in ClickPoints : OnMouseToggle(p)
    \/ \E pos \in ThreshPositions : OnTrackbar(pos)
    \/ KeyNone
    \/ KeyEsc
    \/ KeyClear
    \/ KeyCut
    \/ \E pos \in SmoothPositions : OnTrackbarSmooth(pos)
    \/ KeyPreview
    \/ \E written \in BOOLEAN : KeySave(written)
    \/ \E saved \in BOOLEAN : KeyExport(saved)
    \/ \E saved \in BOOLEAN : KeyExportAll(saved)

SpecIO == Init /\ [][IONext]_vars

\* ------------------------------ merge_tiny_regions_fast on drawn arguments

\* The pixels of a two-row grid of width MW.
MPixels == (0 .. MW - 1) \X (0 .. 1)

\* The ids a drawn label grid may hold (not dense, and 0 may be absent).
MIds == 0 .. 3

\* The min_pixels values drawn.
MMins == -1 .. MMaxMin

\* Three Lab colours: |c1 - c2| = |c1 - c3| = 5, |c2 - c3| = sqrt(18).
Palette == << <<0, 0, 0>>, <<3, 4, 0>>, <<0, 4, 3>> >>

\* The colour fields drawn: coloured by column, coloured by row.
MImages ==
    { [p \in MPixels |-> Palette[(p[1] % 3) + 1]],
      [p \in MPixels |-> Palette[(p[2] % 3) + 1]] }

MInit ==
    /\ m_pc = "input"
    /\ m_labels \in [MPixels -> MIds]
    /\ m_lab \in MImages
    /\ m_min \in MMins
    /\ m_pick = << >>
    /\ m_out = << >>
    /\ labels = << >>
    /\ labels_slic = << >>
    /\ rag = {}
    /\ selected = {}
    /\ sel_mask = {}
    /\ boundaries = {}
    /\ state = << >>
    /\ last_xy = <<0, 0>>
    /\ pc = "off"
    /\ last = NoEvent
    /\ undo = << >>
    /\ idx = 0
    /\ hist = << >>

\* labels_clean = merge_tiny_regions_fast(labels_merged, lab, min_pixels)
MergeCall ==
    /\ m_pc = "input"
    /\ \E pick \in PickFns(RelabelSequential(m_labels), m_lab, m_min) :
          LET r == merge_tiny_regions_fast(m_labels, m_min, pick)
          IN  /\ m_pick' = pick
              /\ m_out' = r.out
              /\ m_pc' = IF r.ok THEN "done" ELSE "hung"
    /\ UNCHANGED <<m_labels, m_lab, m_min>>
    /\ UNCHANGED evars

MNext == MergeCall

SpecMerge == MInit /\ [][MNext]_vars

\* The same call on wider grids with fewer ids, where two regions of at
\* least min_pixels can lie next to an undersized one.
MWide == 3

MWidePixels == (0 .. MWide - 1) \X (0 .. 1)

MWideIds == 0 .. 2

MWideImages ==
    { [p \in MWidePixels |-> Palette[(p[1] % 3) + 1]],
      [p \in MWidePixels |-> Palette[(p[2] % 3) + 1]] }

MWideInit ==
    /\ m_pc = "input"
    /\ m_labels \in [MWidePixels -> MWideIds]
    /\ m_lab \in MWideImages
    /\ m_min \in MMins
    /\ m_pick = << >>
    /\ m_out = << >>
    /\ labels = << >>
    /\ labels_slic = << >>
    /\ rag = {}
    /\ selected = {}
    /\ sel_mask = {}
    /\ boundaries = {}
    /\ state = << >>
    /\ last_xy = <<0, 0>>
    /\ pc = "off"
    /\ last = NoEvent
    /\ undo = << >>
    /\ idx = 0
    /\ hist = << >>

SpecMergeWide == MWideInit /\ [][MNext]_vars

\* ------------------------------------------------------------ C1 .. C4

\* The pixel count of region i of grid L.
Area(L, i) == Cardinality({p \in DOMAIN L : L[p] = i})

\* The ids of the regions 4-adjacent to region i of grid L.
Neighbors(L, i) ==
    {L[q] : q \in UNION {Nbr4(DOMAIN L, p) : p \in {r \in DOMAIN L : L[r] = i}}}
        \ {i}

\* The input grid as merge_tiny_regions_fast numbers it (line 104), and
\* what it computes from it.
MIn == RelabelSequential(m_labels)

MT == Tables(MIn, m_lab)

\* C1 (as claimed): in the grid returned for min_pixels > 0, every region
\* whose area is below min_pixels has no 4-connected neighbouring region.
C1_NoSmallRegionLeft ==
    (m_pc = "done" /\ m_min > 0) =>
        \A i \in Ids(m_out) :
            Area(m_out, i) < m_min => Neighbors(m_out, i) = {}

RECURSIVE LinkedFrom(_, _)
\* The ids reachable from the set S along the links s -- pick[s].
LinkedFrom(S, pick) ==
    LET T == S \cup {pick[s] : s \in S \cap DOMAIN pick}
                \cup {s \in DOMAIN pick : pick[s] \in S}
    IN  IF T = S THEN S ELSE LinkedFrom(T, pick)

\* The output ids given to the pixels of input region a.
OutIdsOf(In, a) == {m_out[p] : p \in {q \in DOMAIN In : In[q] = a}}

\* C2: every output region is a union of whole input regions, and two
\* pixels share an output id exactly when their input ids are in the same
\* component of the merge relation s -- m_pick[s] (s undersized with a
\* neighbour, m_pick[s] the neighbour it was unioned with).
C2_UnionSoundness ==
    m_pc = "done" =>
        LET In == MIn
        IN  /\ DOMAIN m_pick =
                  {s \in Ids(In) : Area(In, s) < m_min /\ Neighbors(In, s) # {}}
            /\ \A a \in Ids(In) : Cardinality(OutIdsOf(In, a)) = 1
            /\ \A a \in Ids(In) :
                  LET comp == LinkedFrom({a}, m_pick)
                  IN  \A b \in Ids(In) :
                         (OutIdsOf(In, a) = OutIdsOf(In, b)) <=> (b \in comp)

\* C2 witness: a call on three input regions that unioned two of them and
\* left the third apart.
C2_Witness ==
    /\ m_pc = "done"
    /\ Cardinality(Ids(m_labels)) = 3
    /\ Cardinality(Ids(m_out)) = 2
    /\ DOMAIN m_pick # {}

\* C3: every input region with area < min_pixels that has a neighbour is,
\* in the output, in one region with a neighbour whose mean colour is at
\* minimum distance from its own (the one it was unioned with); a grid of
\* two adjacent regions, one of them undersized, comes back as a single
\* region.
C3_MergedIntoClosest ==
    m_pc = "done" =>
        LET In == MIn
            T  == Tables(In, m_lab)
        IN  /\ \A s \in Ids(In) :
                  (Area(In, s) < m_min /\ Neighbors(In, s) # {}) =>
                      /\ s \in DOMAIN m_pick
                      /\ m_pick[s] \in Neighbors(In, s)
                      /\ \A b \in Neighbors(In, s) : ~Closer(T, s, b, m_pick[s])
                      /\ OutIdsOf(In, s) = OutIdsOf(In, m_pick[s])
                      /\ Cardinality(OutIdsOf(In, s)) = 1
            /\ (Cardinality(Ids(m_labels)) = 2
                    /\ \E s \in Ids(In) :
                          Area(In, s) < m_min /\ Neighbors(In, s) # {})
                  => Cardinality(Ids(m_out)) = 1

\* C3 witness: three regions, the undersized one has two neighbours at
\* different distances and went to the closer one.
C3_Witness ==
    /\ m_pc = "done"
    /\ Cardinality(Ids(m_labels)) = 3
    /\ \E s \in Ids(MIn) :
          /\ Area(MIn, s) < m_min
          /\ \E a, b \in Neighbors(MIn, s) : Closer(MT, s, a, b)
    /\ Cardinality(Ids(m_out)) = 2

\* C4: for min_pixels <= 0 nothing is merged: the output partition is the
\* input partition.
C4_NonPositiveMinIsIdentity ==
    (m_pc = "done" /\ m_min <= 0) => SamePartition(m_labels, m_out)

\* C4 witness: a call with min_pixels <= 0 on a grid with a one-pixel
\* region next to another region.
C4_Witness ==
    /\ m_pc = "done"
    /\ m_min <= 0
    /\ \E i \in Ids(m_labels) :
          Area(m_labels, i) = 1 /\ Neighbors(m_labels, i) # {}

\* ------------------------------------------------- claims on the edit engine

\* The engine's variables hold a session (not the dummies of SpecMerge).
Running == pc \in {"top", "wait", "done"}

\* The pixels of the region of L that holds the pixel p.
RegionOf(L, p) == {q \in DOMAIN L : L[q] = L[p]}

\* The step is on_mouse taking the second cut point (the released button is
\* at last_xy'): the only click handled with cut mode on and the anchor set.
SecondCutClick ==
    /\ pc = "wait"
    /\ state.cut_mode
    /\ state.cut_p1 # None
    /\ last'.ev = "click"

\* The 4-connected components left of the anchor's region by the line from
\* the anchor to the second point.
Carved == Components(RegionOf(labels, state.cut_p1)
                        \ LinePixels(state.cut_p1, last_xy'))

\* The pixels whose id the step changes.
Relabelled == {q \in Pixels : labels'[q] # labels[q]}

\* C5: in every state of a session the selection mask is exactly the set of
\* pixels whose label is in the Selection Set, and every selected id is an
\* id of the label grid.
C5_SelectionMaskExact ==
    Running =>
        /\ sel_mask = {q \in Pixels : labels[q] \in selected}
        /\ selected \subseteq Ids(labels)

\* A region was deselected while another stays selected: the mask is the
\* other region.
C5_Witness ==
    /\ Running
    /\ last.msg = "Deselected region"
    /\ selected # {}
    /\ sel_mask # {}
    /\ sel_mask # Pixels

\* C6: after two toggles of the same label in a row, outside cut mode and
\* with the label grid unchanged in between, the Selection Set and the
\* selection mask are what they were before the first of the two.
C6_ToggleTwiceRestores ==
    (Len(undo) = 2 /\ undo[1].lab = undo[2].lab) =>
        /\ selected = undo[2].selected
        /\ sel_mask = undo[2].sel_mask

\* Select then deselect from an empty selection: empty set, all-zero mask.
C6_Witness ==
    /\ Len(undo) = 2
    /\ undo[1].lab = undo[2].lab
    /\ undo[2].selected = {}
    /\ undo[1].selected # {}
    /\ undo[1].sel_mask # {}
    /\ selected = {}
    /\ sel_mask = {}

\* C7: a second cut point in the anchor's region whose line leaves the region
\* with fewer than 2 four-connected components changes neither the label
\* grid nor the Selection Set.
C7_NoSplitNoChange ==
    [][(/\ SecondCutClick
        /\ labels[last_xy'] = labels[state.cut_p1]
        /\ Len(Carved) < 2)
          => (labels' = labels /\ selected' = selected)]_vars

\* A cut that did not split has been reported.
C7_Witness ==
    /\ last.msg = "Cut did not split the region"
    /\ ~state.cut_mode

\* C8: a second cut point in a region other than the anchor's cancels the
\* cut: label grid, Selection Set, selection mask and boundary mask are
\* unchanged, cut mode is off and the anchor is cleared.
C8_OtherRegionCancels ==
    [][(/\ SecondCutClick
        /\ labels[last_xy'] # labels[state.cut_p1])
          => (/\ labels' = labels
              /\ selected' = selected
              /\ sel_mask' = sel_mask
              /\ boundaries' = boundaries
              /\ ~state'.cut_mode
              /\ state'.cut_p1 = None
              /\ last'.msg = "Second point not in the same region; cancelling cut.")]_vars

\* A cancelled cut has been reported and the engine is idle.
C8_Witness ==
    /\ last.msg = "Second point not in the same region; cancelling cut."
    /\ ~state.cut_mode
    /\ state.cut_p1 = None

C10_CutRelabelsOneComponent ==
    [][(/\ SecondCutClick
        /\ labels[last_xy'] = labels[state.cut_p1]
        /\ Len(Carved) >= 2)
          => (LET new_id == SetMax(Ids(labels)) + 1
                  R      == {q \in Pixels : labels'[q] = new_id}
              IN  /\ \E i \in 1 .. Len(Carved) : R = Carved[i]
                  /\ \A q \in Pixels \ R : labels'[q] = labels[q]
                  /\ selected' = {}
                  /\ sel_mask' = {})]_vars

\* A cut bisected the only region of the grid: two ids, nothing selected.
C10_Witness ==
    /\ last.msg = "Cut applied."
    /\ Ids(labels) = {0, 1}
    /\ selected = {}

\* ------------------------------------------------------------ C11 .. C20

\* C11: the region a cut is applied to is the region that contained the
\* anchor pixel when the first cut click recorded it, whatever commands came
\* between the two clicks.  hist.anchor is the anchor's region at the first
\* click; the region cut is the one holding the anchor at the second click.
C11_CutAppliesToAnchorRegion ==
    [][(SecondCutClick
          /\ labels[last_xy'] = labels[state.cut_p1]
          /\ Len(Carved) >= 2)
         => RegionOf(labels, state.cut_p1) = hist.anchor]_vars

\* The step is the 'x' key handled by the loop (the cursor is at last_xy).
SplitKey == pc = "wait" /\ last'.ev = "key_x"

\* C12: a split of a region of fewer than 50 pixels, or one whose clustering
\* raises an error, is a no-op: the label grid, the Selection Set and its
\* mask, the boundary mask and the cut state are unchanged.
C12_FailedSplitIsNoOp ==
    [][(SplitKey
          /\ \/ Cardinality(RegionOf(labels, last_xy)) < SplitMinSize
             \/ last'.msg = "KMeans split failed")
         => /\ labels' = labels
            /\ selected' = selected
            /\ sel_mask' = sel_mask
            /\ boundaries' = boundaries
            /\ state'.cut_mode = state.cut_mode
            /\ state'.cut_p1 = state.cut_p1]_vars

\* A too-small region was asked to be split while a region was selected and
\* a cut was waiting for its second point.
C12_Witness ==
    /\ Running
    /\ last.ev = "key_x"
    /\ last.msg = "Region too small to split."
    /\ selected # {}
    /\ state.cut_mode
    /\ state.cut_p1 # None

\* C13: a split of a region of at least 50 pixels whose clustering succeeds
\* gives the id max + 1 to exactly the region's pixels of the second cluster
\* (last'.one holds the colours the clustering put there), leaves every
\* other pixel's id as it was, and empties the Selection Set and its mask.
C13_SplitRelabelsSecondCluster ==
    [][(SplitKey
          /\ Cardinality(RegionOf(labels, last_xy)) >= SplitMinSize
          /\ last'.msg # "KMeans split failed")
         => /\ \A q \in Pixels :
                  labels'[q] =
                     IF labels[q] = labels[last_xy] /\ lab[q] \in last'.one
                     THEN SetMax(Ids(labels)) + 1
                     ELSE labels[q]
            /\ selected' = {}
            /\ sel_mask' = {}]_vars

\* A split has just put a non-empty second cluster under a new id and left
\* a non-empty first cluster under the old one.
C13_Witness ==
    /\ Running
    /\ last.ev = "key_x"
    /\ last.one # {}
    /\ \E q \in Pixels : lab[q] \in last.one /\ labels[q] = SetMax(Ids(labels))
    /\ \E q \in Pixels : lab[q] \notin last.one /\ labels[q] = labels[last_xy]

\* The step is a loop iteration that re-segments.
ReThreshold == pc = "top" /\ (state.reseg \/ state.reslic)

\* C14: a re-threshold with the threshold of the previous one (hist.th), on
\* a base partition equal to the one the previous one used, yields the grid
\* the previous one yielded (hist.grid), whatever toggles, splits and cuts
\* came between.
C14_ReThresholdIdempotent ==
    [][(ReThreshold
          /\ state.target_thresh = hist.th
          /\ labels_slic' = labels_slic)
         => labels' = hist.grid]_vars

\* The loop has just re-thresholded with the threshold and base partition of
\* the previous re-threshold, after a toggle, split or cut.
C14_Witness ==
    /\ Running
    /\ hist.rep
    /\ last.ev = "loop"
    /\ labels = hist.grid

\* C15: in every state of a session, between any two handlers, the stored
\* boundary mask is the boundary mask of the current label grid.
C15_BoundariesCurrent ==
    Running => boundaries = find_boundaries(labels)

\* A cut has just changed the grid, and the grid has boundary pixels.
C15_Witness ==
    /\ Running
    /\ last.msg = "Cut applied."
    /\ boundaries # {}
    /\ Cardinality(Ids(labels)) >= 2

\* C16: commands take effect in the order they were issued: when a toggle, a
\* cut click or a split is processed, every re-threshold or re-partition
\* requested before it has been carried out on the grid, so none is pending.
C16_NoEditBeforePendingReThreshold ==
    [][(pc = "wait" /\ last'.ev \in {"click", "key_x"})
         => (~state.reseg /\ ~state.reslic)]_vars

\* C17: the ids of the grid merge_tiny_regions_fast returns are exactly
\* 0 .. N - 1, N being the number of regions of that grid.
C17_OutputIdsDenseFromZero ==
    m_pc = "done" => Ids(m_out) = 0 .. Cardinality(Ids(m_out)) - 1

\* Following parent from x reaches a root (parent[r] = r) in at most k hops.
RECURSIVE ReachesRoot(_, _, _)
ReachesRoot(parent, x, k) ==
    IF parent[x] = x THEN TRUE
    ELSE IF k = 0 THEN FALSE
    ELSE ReachesRoot(parent, parent[x], k - 1)

\* The parent array has no cycle other than the roots' self loops.
IsForest(parent) ==
    \A x \in DOMAIN parent : ReachesRoot(parent, x, Cardinality(DOMAIN parent))

\* The undersized regions of the relabelled input.
MSmall == {i \in 0 .. NumIds(MIn) - 1 : Area(MIn, i) < m_min}

\* C18: merge_tiny_regions_fast terminates on every grid and every
\* min_pixels: no find call and no root resolution runs without end, and
\* after each step of the union loop (the steps for the small regions below
\* k, for every k) the parent array is a forest, also when two undersized
\* regions choose each other.
C18_MergeTerminates ==
    /\ m_pc # "hung"
    /\ m_pc = "done" =>
          \A k \in 0 .. NumIds(MIn) :
             LET u == Parent(NumIds(MIn), {s \in MSmall : s < k}, m_pick)
             IN  u.ok /\ IsForest(u.parent)

\* The call returned, and two undersized regions had chosen each other.
C18_Witness ==
    /\ m_pc = "done"
    /\ \E a, b \in DOMAIN m_pick :
          a # b /\ m_pick[a] = b /\ m_pick[b] = a

\* C19: a loop iteration that starts with a re-partition request pending
\* regenerates the base partition from the current segment count and
\* compactness, rebuilds the graph, and re-thresholds in the same iteration:
\* afterwards neither request is pending, the grid is the re-segmentation of
\* the new partition at the current threshold, and the Selection Set and
\* its mask are empty.
C19_RePartitionReThresholds ==
    [][(pc = "top" /\ state.reslic)
         => /\ labels_slic' = slic(state.target_segments, state.target_compact)
            /\ rag' = {}
            /\ labels' = Resegmented[labels_slic', state.target_thresh]
            /\ ~state'.reslic
            /\ ~state'.reseg
            /\ selected' = {}
            /\ sel_mask' = {}
            /\ pc' = "wait"]_vars

\* A loop iteration has just re-partitioned into a partition other than the
\* initial one and re-thresholded it.
C19_Witness ==
    /\ Running
    /\ last.ev = "loop"
    /\ last.msg = "reslic"
    /\ labels_slic # slic(InitSegments, InitCompact)
    /\ labels = Resegmented[labels_slic, state.target_thresh]
    /\ ~state.reslic
    /\ ~state.reseg

\* The step is a handled click (a released button) while cut mode is on.
CutModeClick == pc = "wait" /\ state.cut_mode /\ last'.ev = "click"

\* The click is a second cut point that splits the anchor's region.
CutSucceeds ==
    IF state.cut_p1 = None THEN FALSE
    ELSE labels[last_xy'] = labels[state.cut_p1] /\ Len(Carved) >= 2

\* C20: while cut mode is on a click never toggles selection: it is taken
\* as a cut point, and the Selection Set and its mask change only if the
\* click completes a successful cut, which empties them.
C20_CutModeClickNeverToggles ==
    [][CutModeClick
         => /\ last'.msg \notin {"Selected region", "Deselected region"}
            /\ IF CutSucceeds
               THEN selected' = {} /\ sel_mask' = {}
               ELSE selected' = selected /\ sel_mask' = sel_mask
            /\ \/ state.cut_p1 = None /\ state'.cut_p1 = last_xy'
               \/ state.cut_p1 # None /\ ~state'.cut_mode]_vars

\* The first cut point has just been taken while a region was selected, and
\* the selection is still there.
C20_Witness ==
    /\ Running
    /\ state.cut_mode
    /\ last.msg = "Cut start set."
    /\ state.cut_p1 = last_xy
    /\ selected # {}

\* ------------------------------------------------------------ C21 .. C25

\* C21: the 'c' key empties the Selection Set and zeroes the selection mask
\* and leaves the label grid, the boundary mask and the cut state as they
\* were.
C21_ClearOnlyClearsSelection ==
    [][(pc = "wait" /\ last'.ev = "key_c")
         => /\ selected' = {}
            /\ sel_mask' = {}
            /\ labels' = labels
            /\ boundaries' = boundaries
            /\ state'.cut_mode = state.cut_mode
            /\ state'.cut_p1 = state.cut_p1]_vars

\* The selection has just been cleared on a grid of several regions with a
\* cut waiting for its second point; the anchor is still recorded.
C21_Witness ==
    /\ Running
    /\ last.ev = "key_c"
    /\ selected = {}
    /\ sel_mask = {}
    /\ boundaries # {}
    /\ state.cut_mode
    /\ state.cut_p1 # None

\* The step is the 's', 'e' or 'o' key handled by the loop.
ExportKey == pc = "wait" /\ last'.ev \in {"key_s", "key_e", "key_o"}

\* C22: save selection, export selection and export all, whether the file
\* is written, the write fails, or the command is rejected for an empty
\* selection, leave the label grid, the Selection Set and its mask, the
\* boundary mask and the cut state as they were; an export of the selection
\* that fails or is rejected leaves idx as it was.
C22_ExportsLeaveStateAlone ==
    [][ExportKey
         => /\ labels' = labels
            /\ selected' = selected
            /\ sel_mask' = sel_mask
            /\ boundaries' = boundaries
            /\ state'.cut_mode = state.cut_mode
            /\ state'.cut_p1 = state.cut_p1
            /\ (last'.ev = "key_e" /\ (sel_mask = {} \/ last'.io = "fail"))
                  => idx' = idx]_vars

\* An export of a non-empty selection has just failed to write, with a cut
\* waiting for its second point, and no file number has been used up.
C22_Witness ==
    /\ Running
    /\ last.ev = "key_e"
    /\ last.io = "fail"
    /\ selected # {}
    /\ state.cut_mode
    /\ state.cut_p1 # None
    /\ idx = 1

\* The input regions of at least min_pixels pixels.
MBig == {a \in Ids(m_labels) : Area(m_labels, a) >= m_min}

\* C23: merge_tiny_regions_fast never merges two regions that both have at
\* least min_pixels pixels: such a region stays a root of the parent array
\* through the union loop, two different ones get different output ids, and
\* so no output region holds more than one of them.
C23_BigRegionsStayApart ==
    m_pc = "done" =>
        /\ \A a \in Ids(MIn) :
              Area(MIn, a) >= m_min =>
                 Parent(NumIds(MIn), MSmall, m_pick).parent[a] = a
        /\ \A a, b \in MBig :
              a # b => OutIdsOf(m_labels, a) \cap OutIdsOf(m_labels, b) = {}
        /\ \A o \in Ids(m_out) :
              Cardinality({a \in MBig : o \in OutIdsOf(m_labels, a)}) <= 1

\* The call returned with two regions of at least min_pixels kept apart
\* while an undersized region was merged into one of them.
C23_Witness ==
    /\ m_pc = "done"
    /\ m_min > 0
    /\ \E a, b \in MBig :
          /\ a # b
          /\ OutIdsOf(m_labels, a) # OutIdsOf(m_labels, b)
          /\ \E s \in Ids(m_labels) \ MBig :
                OutIdsOf(m_labels, s) = OutIdsOf(m_labels, a)

\* C24: in every state of a session a cut anchor is recorded only while cut
\* mode is on, and the click taken as the second cut point leaves the engine
\* idle (cut mode off, no anchor) whether the cut was applied, cancelled or
\* did not split the region.
C24_CutStateMachine ==
    /\ [](Running => (state.cut_p1 # None => state.cut_mode))
    /\ [][SecondCutClick
            => (~state'.cut_mode /\ state'.cut_p1 = None)]_vars

\* A second cut point has just been taken, with any of the three outcomes,
\* and the engine is idle again.
C24_Witness ==
    /\ Running
    /\ last.ev = "click"
    /\ last.msg \in {"Cut applied.",
                     "Second point not in the same region; cancelling cut.",
                     "Cut did not split the region"}
    /\ ~state.cut_mode
    /\ state.cut_p1 = None
    /\ last_xy = <<W - 1, H - 1>>

\* C25: every command that changes the label grid or the Selection Set
\* sets the redraw flag, so a change not yet drawn (hist.dirty) always has
\* the flag set; and every loop iteration, before it waits for the next key,
\* applies a pending re-threshold, draws the window if the flag is set and
\* clears the flag, so that no change is left undrawn.
C25_ChangesAreRedrawn ==
    /\ [](Running => (hist.dirty => state.need))
    /\ [][(pc = "wait"
             /\ (labels' # labels \/ selected' # selected \/ sel_mask' # sel_mask))
            => state'.need]_vars
    /\ [][pc = "top"
            => /\ pc' = "wait"
               /\ ~state'.need
               /\ ~hist'.dirty
               /\ (state.reseg \/ state.reslic)
                     => labels' = Resegmented[labels_slic', state.target_thresh]]_vars

\* The loop has just drawn the window after a cut changed the grid, and is
\* waiting for the next key with nothing left to draw.
C25_Witness ==
    /\ Running
    /\ pc = "wait"
    /\ last.ev = "loop"
    /\ ~state.need
    /\ ~hist.dirty
    /\ hist.edits
    /\ Cardinality(Ids(labels)) >= 2
    /\ labels # hist.grid


====
